---- MODULE Spec2Model ----
(***************************************************************************)
(* State-machine model of the extraction orchestration layer of            *)
(* youtube_mcp_server: YouTubeExtractor (extractors/youtube_extractor.py)  *)
(* and the server tools that drive it (server.py).                         *)
(*                                                                         *)
(*   SpecDecode  the response decoder of _run_yt_dlp over all bounded      *)
(*               process results;                                          *)
(*   SpecCache   the result cache API (_get_cached_data under its          *)
(*               functools.lru_cache wrapper, _set_cached_data,            *)
(*               clear_cache);                                             *)
(*   Spec        operation calls running on the single asyncio event loop. *)
(***************************************************************************)
EXTENDS Integers, Sequences, FiniteSets, TLC

VARIABLES
    proc,          \* SpecDecode: the finished subprocess (kind, stdout)
    decoded,       \* SpecDecode: what _run_yt_dlp returned or raised
    max_retries,   \* self.max_retries
    retry_delay,   \* self.retry_delay (mutated by the retry loop)
    enable_cache,  \* self.enable_cache
    cache_ttl,     \* self.cache_ttl
    has_cache,     \* hasattr(self, '_cache')
    cache,         \* self._cache: key -> <<data, timestamp>>
    lru,           \* the lru_cache around _get_cached_data: memo and recency order
    now,           \* time.time()
    last,          \* SpecCache: the last cache API call and what it returned
    tasks,         \* Spec: the coroutines of the current request
    req,           \* Spec: the current request of the event loop
    tmpdirs,       \* Spec: the temporary directories that exist on disk
    run,           \* Spec: the latest call of _run_yt_dlp_with_retry (ghost)
    hist           \* Spec: number of calls made and the last completed call (ghost)

vars == <<proc, decoded, max_retries, retry_delay, enable_cache, cache_ttl,
          has_cache, cache, lru, now, last, tasks, req, tmpdirs, run, hist>>

(***************************************************************************)
(* Bounds of the model.                                                    *)
(***************************************************************************)
MaxLen == 4

MaxTime == 3

CacheTtl == 2

MaxRetries == 2

MaxCalls == 2

MaxBatch == 3

MaxText == 2

MaxItems == 2

(***************************************************************************)
(* Process Invoker and Response Decoder: _run_yt_dlp.                      *)
(* stdout is a sequence of characters. "A" and "B" each stand for the text *)
(* of one complete JSON object, "x" for a character that belongs to no     *)
(* JSON text, " " and "\n" for themselves.                                 *)
(***************************************************************************)
NL == "\n"

JsonTokens == {"A", "B"}

Chars == JsonTokens \cup {"x", " ", NL}

Whitespace == {" ", NL}

\* An absent (None) number, as data.get(...) returns for a missing field.
NoInt == -1

\* An absent key of a JSON object, as seen by data.get(key, default).
NoKey == "absent"

\* data.get(key, default) for the value x of the key.
GetOr(x, default) == IF x = NoKey THEN default ELSE x

\* The object a JSON text denotes: "A" carries a view count, a follower
\* count and the channel's id under both names (uploader_id, channel_id),
\* "B" carries none of them.
JsonValue(tok) ==
    IF tok = "A"
    THEN [id |-> tok, view_count |-> 5, channel_follower_count |-> 7,
          uploader_id |-> "UA", channel_id |-> "CA"]
    ELSE [id |-> tok, view_count |-> NoInt, channel_follower_count |-> NoInt,
          uploader_id |-> NoKey, channel_id |-> NoKey]

RECURSIVE LStrip(_)
LStrip(s) ==
    IF s # <<>> /\ Head(s) \in Whitespace THEN LStrip(Tail(s)) ELSE s

RECURSIVE RStrip(_)
RStrip(s) ==
    IF s # <<>> /\ s[Len(s)] \in Whitespace
    THEN RStrip(SubSeq(s, 1, Len(s) - 1))
    ELSE s

\* str.strip()
Strip(s) == LStrip(RStrip(s))

\* str.split('\n'): the pieces between newlines, empty pieces included.
RECURSIVE Split(_, _)
Split(s, cur) ==
    IF s = <<>> THEN <<cur>>
    ELSE IF Head(s) = NL THEN <<cur>> \o Split(Tail(s), <<>>)
    ELSE Split(Tail(s), Append(cur, Head(s)))

\* Mutant of MapStrip: the comprehension without its "if line.strip()" filter.
RECURSIVE MapStripKeepBlank(_)
MapStripKeepBlank(pieces) ==
    IF pieces = <<>> THEN <<>>
    ELSE <<Strip(Head(pieces))>> \o MapStripKeepBlank(Tail(pieces))

RECURSIVE MapStrip(_)
MapStrip(pieces) ==
    IF pieces = <<>> THEN <<>>
    ELSE LET l == Strip(Head(pieces))
         IN  (IF l # <<>> THEN <<l>> ELSE <<>>) \o MapStrip(Tail(pieces))

\* lines = [line.strip() for line in stdout.strip().split('\n') if line.strip()]
Lines(stdout) == MapStrip(Split(Strip(stdout), <<>>))

\* json.loads(line) succeeds iff the line is the text of one JSON value.
JsonValid(line) == Len(line) = 1 /\ line[1] \in JsonTokens

json_loads(line) == JsonValue(line[1])

YouTubeExtractorError(msg) == [ok |-> FALSE, exc |-> "YouTubeExtractorError", msg |-> msg]

\* A decoded payload: a dict (is_list = FALSE, one item) or a list of dicts.
Payload(is_list, items) == [ok |-> TRUE, is_list |-> is_list, items |-> items]

\* Mutant of Decode: undecodable lines are skipped (partial success).
DecodePartial(stdout) ==
    IF Strip(stdout) # <<>>
    THEN LET lines == SelectSeq(MapStrip(Split(Strip(stdout), <<>>)), JsonValid)
         IN  IF Len(lines) = 1
             THEN Payload(FALSE, <<json_loads(lines[1])>>)
             ELSE Payload(TRUE, [i \in 1..Len(lines) |-> json_loads(lines[i])])
    ELSE YouTubeExtractorError("No data returned from yt-dlp")

\* The decoding of a zero-exit stdout (lines 157-168 and the handler at 177).
Decode(stdout) ==
    IF Strip(stdout) # <<>>
    THEN LET lines == Lines(stdout)
         IN  IF \E i \in 1..Len(lines) : ~JsonValid(lines[i])
             THEN YouTubeExtractorError("Failed to parse JSON")
             ELSE IF Len(lines) = 1
                  THEN Payload(FALSE, <<json_loads(lines[1])>>)
                  ELSE Payload(TRUE, [i \in 1..Len(lines) |-> json_loads(lines[i])])
    ELSE YouTubeExtractorError("No data returned from yt-dlp")

\* _run_yt_dlp on a finished subprocess p = [kind, stdout].
_run_yt_dlp(p) ==
    CASE p.kind = "nonzero" -> YouTubeExtractorError("yt-dlp failed")
      [] p.kind = "timeout" -> YouTubeExtractorError("Extraction timed out")
      [] OTHER              -> Decode(p.stdout)

ProcKinds == {"exit0", "nonzero", "timeout"}

RECURSIVE SeqsUpTo(_, _)
SeqsUpTo(S, n) ==
    IF n = 0 THEN {<<>>}
    ELSE LET shorter == SeqsUpTo(S, n - 1)
         IN  shorter \cup {Append(s, c) : s \in shorter, c \in S}

NotDecoded == [ok |-> FALSE, exc |-> "none", msg |-> "pending"]

(***************************************************************************)
(* Result cache: self._cache, read through _get_cached_data, which the     *)
(* source wraps in functools.lru_cache(maxsize=100), written by            *)
(* _set_cached_data and emptied by clear_cache.                            *)
(***************************************************************************)
LruMaxsize == 100

None == [ok |-> FALSE, exc |-> "none", msg |-> "None"]

Urls == {"u1", "u2"}

\* str(n) for the small numbers that occur in cache keys.
Str(n) == CASE n = 0 -> "0" [] n = 1 -> "1" [] n = 2 -> "2" [] OTHER -> "3"

\* f"video_info:{url}", f"playlist_info:{url}", f"transcript:{url}",
\* f"channel_info:{url}" and f"comments:{url}:{max_comments or 'all'}";
\* max_comments = None is modelled as 0, which the code treats alike.
VideoKey(url) == <<"video_info", url>>

PlaylistKey(url) == <<"playlist_info", url>>

TranscriptKey(url) == <<"transcript", url>>

ChannelKey(url) == <<"channel_info", url>>

CommentsKey(url, max_comments_) ==
    <<"comments", url, IF max_comments_ # 0 THEN Str(max_comments_) ELSE "all">>

EmptyCache == [k \in {} |-> <<None, 0>>]

EmptyLru == [memo |-> [k \in {} |-> None], order |-> <<>>]

\* dict without one key: del self._cache[cache_key]
DelKey(c, key) == [k \in (DOMAIN c) \ {key} |-> c[k]]

\* dict with one key set: self._cache[cache_key] = (data, time.time())
SetKey(c, key, val) == [k \in (DOMAIN c) \cup {key} |-> IF k = key THEN val ELSE c[k]]

RemoveFromSeq(s, x) == SelectSeq(s, LAMBDA y : y # x)

\* The body of _get_cached_data (lines 184-199) in cache c at time t:
\* the value it returns and the cache it leaves.
GetCachedBody(c, key, t) ==
    IF ~enable_cache THEN [ret |-> None, cache |-> c]
    ELSE IF has_cache /\ key \in DOMAIN c
         THEN IF t - c[key][2] < cache_ttl
              THEN [ret |-> c[key][1], cache |-> c]
              ELSE [ret |-> None, cache |-> DelKey(c, key)]
         ELSE [ret |-> None, cache |-> c]

\* functools.lru_cache: a call with memoised arguments returns the memoised
\* value without running the body; otherwise the body runs, its value is
\* memoised and the least recently used memo is dropped beyond maxsize.
LruCall(l, c, key, t) ==
    IF key \in DOMAIN l.memo
    THEN [ret |-> l.memo[key], cache |-> c,
          lru |-> [l EXCEPT !.order = Append(RemoveFromSeq(l.order, key), key)]]
    ELSE LET r     == GetCachedBody(c, key, t)
             order == Append(l.order, key)
             memo  == SetKey(l.memo, key, r.ret)
         IN  IF Len(order) > LruMaxsize
             THEN [ret |-> r.ret, cache |-> r.cache,
                   lru |-> [memo |-> DelKey(memo, Head(order)), order |-> Tail(order)]]
             ELSE [ret |-> r.ret, cache |-> r.cache,
                   lru |-> [memo |-> memo, order |-> order]]

\* self._get_cached_data(cache_key) as callers see it (the decorated method).
_get_cached_data(l, c, key, t) == LruCall(l, c, key, t)

\* Mutant of _set_cached_data: the store ignores enable_cache.
SetCachedDataAlways(c, key, data, t) == SetKey(c, key, <<data, t>>)

\* _set_cached_data (lines 201-210): the cache it leaves.
_set_cached_data(c, key, data, t) ==
    IF ~enable_cache THEN c ELSE SetKey(c, key, <<data, t>>)

\* clear_cache (lines 861-865): self._cache.clear(); the lru memo is untouched.
clear_cache(c) == IF has_cache THEN EmptyCache ELSE c

(***************************************************************************)
(* Construction: YouTubeExtractor.__init__ (lines 69-74) with the server's *)
(* defaults (server.py 75-88); the cache attribute does not exist yet.     *)
(***************************************************************************)
DefaultRetryDelay == 1

InitExtractor ==
    /\ max_retries \in 0..MaxRetries
    /\ retry_delay = DefaultRetryDelay
    /\ enable_cache \in BOOLEAN
    /\ cache_ttl = CacheTtl
    /\ has_cache = FALSE
    /\ cache = EmptyCache
    /\ lru = EmptyLru
    /\ now = 0

NoCall == [op |-> "none", key |-> <<>>, ret |-> None]

NoRequest == [kind |-> "none", state |-> "idle"]

NoPrev == [n |-> 0, prev |-> [op |-> "none"]]

NoProc == [kind |-> "none", stdout |-> <<>>]

\* A call of _run_yt_dlp_with_retry by task i: the tool invocations so far,
\* the sleeps so far, the last finished subprocess, what the call gave out
\* and the files the tool left behind.
NewRun(i) ==
    [task |-> i, tries |-> 1, sleeps |-> <<>>, lastproc |-> NoProc, out |-> None,
     files |-> [exists |-> FALSE, valid |-> FALSE, n |-> 0]]

NoRun == [NewRun(0) EXCEPT !.tries = 0]

InitIdle ==
    /\ proc = [kind |-> "exit0", stdout |-> <<>>]
    /\ decoded = NotDecoded
    /\ last = NoCall
    /\ tasks = <<>>
    /\ req = NoRequest
    /\ tmpdirs = {}
    /\ run = NoRun
    /\ hist = NoPrev

extractorVars == <<max_retries, retry_delay, enable_cache, cache_ttl, has_cache,
                   cache, lru, now>>

configVars == <<max_retries, enable_cache, cache_ttl>>

loopVars == <<tasks, req, tmpdirs, run, hist>>

\* time.time() advances.
Tick ==
    /\ now < MaxTime
    /\ now' = now + 1

(***************************************************************************)
(* SpecDecode: _run_yt_dlp applied to every finished subprocess whose      *)
(* stdout has at most MaxLen characters.                                   *)
(***************************************************************************)
InitDecode ==
    /\ proc \in [kind : ProcKinds, stdout : SeqsUpTo(Chars, MaxLen)]
    /\ decoded = NotDecoded
    /\ max_retries = 0
    /\ retry_delay = DefaultRetryDelay
    /\ enable_cache = TRUE
    /\ cache_ttl = CacheTtl
    /\ has_cache = FALSE
    /\ cache = EmptyCache
    /\ lru = EmptyLru
    /\ now = 0
    /\ last = NoCall
    /\ tasks = <<>>
    /\ req = NoRequest
    /\ tmpdirs = {}
    /\ run = NoRun
    /\ hist = NoPrev

RunDecode ==
    /\ decoded = NotDecoded
    /\ decoded' = _run_yt_dlp(proc)
    /\ UNCHANGED <<proc, extractorVars, last, loopVars>>

NextDecode == RunDecode

SpecDecode == InitDecode /\ [][NextDecode]_vars

(***************************************************************************)
(* SpecCache: every history of lookups, stores, clears and clock ticks on  *)
(* one extractor.                                                          *)
(***************************************************************************)
CacheKeys == {VideoKey(u) : u \in Urls}

CachePayloads == {Payload(FALSE, <<JsonValue(t)>>) : t \in JsonTokens}

InitCache == InitExtractor /\ InitIdle /\ max_retries = 0

Lookup(key) ==
    LET r == _get_cached_data(lru, cache, key, now)
    IN  /\ cache' = r.cache
        /\ lru' = r.lru
        /\ last' = [op |-> "lookup", key |-> key, ret |-> r.ret,
                    expired |-> (has_cache /\ key \in DOMAIN cache
                                  /\ now - cache[key][2] >= cache_ttl)]
        /\ UNCHANGED <<proc, decoded, configVars, retry_delay, has_cache, now, loopVars>>

Store(key, data) ==
    /\ cache' = _set_cached_data(cache, key, data, now)
    /\ has_cache' = (has_cache \/ enable_cache)
    /\ last' = [op |-> "store", key |-> key, ret |-> data]
    /\ UNCHANGED <<proc, decoded, configVars, retry_delay, lru, now, loopVars>>

Clear ==
    /\ cache' = clear_cache(cache)
    /\ last' = [op |-> "clear", key |-> <<>>, ret |-> None]
    /\ UNCHANGED <<proc, decoded, configVars, retry_delay, has_cache, lru, now, loopVars>>

TickCache ==
    /\ Tick
    /\ last' = [op |-> "tick", key |-> <<>>, ret |-> None]
    /\ UNCHANGED <<proc, decoded, configVars, retry_delay, has_cache, cache, lru, loopVars>>

NextCache ==
    \/ \E key \in CacheKeys : Lookup(key)
    \/ \E key \in CacheKeys, data \in CachePayloads : Store(key, data)
    \/ Clear
    \/ TickCache

SpecCache == InitCache /\ [][NextCache]_vars

(***************************************************************************)
(* Properties of the decoder (SpecDecode).  The lines of a stdout are      *)
(* described here from the character positions, independently of the       *)
(* decoder's own strip and split.                                          *)
(***************************************************************************)
\* The number of the line that holds position i (lines are separated by NL).
LineOf(s, i) == 1 + Cardinality({j \in 1..(i - 1) : s[j] = NL})

\* The positions of line n that hold something other than white space.
InkOf(s, n) == {i \in 1..Len(s) : LineOf(s, i) = n /\ s[i] \notin Whitespace}

NonBlankLines(s) == {LineOf(s, i) : i \in {j \in 1..Len(s) : s[j] \notin Whitespace}}

\* Line n holds exactly the text of one JSON value (white space around it).
LineHoldsJson(s, n) ==
    /\ Cardinality(InkOf(s, n)) = 1
    /\ \A i \in InkOf(s, n) : s[i] \in JsonTokens
    /\ \A i \in 1..Len(s) : LineOf(s, i) = n /\ s[i] = " " =>
            \/ \A j \in InkOf(s, n) : i < j
            \/ \A j \in InkOf(s, n) : i > j

\* The records of the JSON texts of s, in the order of their positions.
RecordsInOrder(s) == LET toks == SelectSeq(s, LAMBDA c : c \in JsonTokens)
                     IN  [i \in 1..Len(toks) |-> JsonValue(toks[i])]

Ran == decoded # NotDecoded

\* C8: zero exit and every non-blank line valid JSON: one non-blank line gives
\* exactly that one record, N >= 2 non-blank lines give the list of exactly N
\* records in line order; blank lines give no record.
C8_DecoderCounts ==
    LET s == proc.stdout
        n == Cardinality(NonBlankLines(s))
    IN  (Ran /\ proc.kind = "exit0" /\ n >= 1
             /\ \A l \in NonBlankLines(s) : LineHoldsJson(s, l))
        => /\ decoded.ok
           /\ Len(decoded.items) = n
           /\ decoded.items = RecordsInOrder(s)
           /\ decoded.is_list = (n >= 2)

\* C8 witness: two records decoded from an output that also holds a blank line.
C8_Witness ==
    /\ Ran /\ decoded.ok /\ decoded.is_list
    /\ Len(decoded.items) = 2 /\ decoded.items[1].id = "B" /\ decoded.items[2].id = "A"
    /\ \E i \in 1..(Len(proc.stdout) - 1) : proc.stdout[i] = NL /\ proc.stdout[i + 1] = NL

\* What a caller reads off the message of a failure of one invocation.
KindOfMessage(msg) ==
    CASE msg = "yt-dlp failed"                -> "tool"
      [] msg = "Extraction timed out"         -> "timeout"
      [] msg = "Failed to parse JSON"         -> "decode"
      [] msg = "No data returned from yt-dlp" -> "nodata"
      [] OTHER                                -> "unknown"

\* What happened to the invocation, read off the subprocess itself.
KindOfProc(p) ==
    CASE p.kind = "nonzero" -> "tool"
      [] p.kind = "timeout" -> "timeout"
      [] NonBlankLines(p.stdout) = {} -> "nodata"
      [] \E l \in NonBlankLines(p.stdout) : ~LineHoldsJson(p.stdout, l) -> "decode"
      [] OTHER -> "success"

\* C9: one undecodable non-blank line fails the whole invocation with a decode
\* failure and no record is returned; output that is empty after trimming fails
\* with a no-data failure; the failure tells the caller which of tool, timeout,
\* decode and no-data it was.
C9_AllOrNothing ==
    Ran => /\ (KindOfProc(proc) # "success") = ~decoded.ok
           /\ ~decoded.ok => KindOfMessage(decoded.msg) = KindOfProc(proc)

\* C9 witness: a valid line beside an undecodable one, failed as a whole.
C9_Witness ==
    /\ Ran /\ ~decoded.ok /\ decoded.msg = "Failed to parse JSON"
    /\ proc.kind = "exit0"
    /\ \E l \in NonBlankLines(proc.stdout) : LineHoldsJson(proc.stdout, l)

(***************************************************************************)
(* Properties of the cache (SpecCache).                                    *)
(***************************************************************************)
Fresh(key) == has_cache /\ key \in DOMAIN cache /\ now - cache[key][2] < cache_ttl

Expired(key) == has_cache /\ key \in DOMAIN cache /\ now - cache[key][2] >= cache_ttl

\* C2: after store(K, P), whatever lookups, stores and clears came before, a
\* lookup(K) made while now - recorded_at < ttl returns P.
C2_RoundTrip ==
    (last.op = "lookup" /\ enable_cache /\ Fresh(last.key))
        => last.ret = cache[last.key][1]

\* C5: a lookup of a key whose entry has age >= ttl returns absent and removes
\* the entry, also after an earlier lookup within the TTL returned the payload;
\* so no lookup leaves an entry older than ttl behind or returns its payload.
C5_Expiry ==
    last.op = "lookup"
        => /\ ~Expired(last.key)
           /\ last.expired => last.ret = None /\ last.key \notin DOMAIN cache

(***************************************************************************)
(* Operation calls.  Every operation is a coroutine without a suspending   *)
(* await: subprocess.run and time.sleep block the event loop.  A task is   *)
(* one coroutine; its pc is "pending" (created, not started), "running"    *)
(* (blocked in subprocess.run), "sleeping" (blocked in time.sleep) or      *)
(* "done" (returned or raised, res holds which).                           *)
(***************************************************************************)
Task(op, url, max_comments_) ==
    [op |-> op, url |-> url, mc |-> max_comments_, pc |-> "pending",
     phase |-> "none", attempt |-> 0, calls |-> 0, last_error |-> None,
     data |-> None, origin |-> "none", dir |-> "", res |-> None]

\* A returned value and a raised exception.
Ok(value) == [ok |-> TRUE, value |-> value]

Raise(exc, msg) == [ok |-> FALSE, exc |-> exc, msg |-> msg]

\* The error _run_yt_dlp_with_retry raises after its loop (line 129).
ExtractionFailed(attempts, last_error_) ==
    [ok |-> FALSE, exc |-> "YouTubeExtractorError", msg |-> "Failed to extract data",
     attempts |-> attempts, cause |-> last_error_.msg]

\* "if cached_data:": None, an empty list and an empty dict are all false.
Truthy(d) == d # None /\ d.items # <<>>

\* VideoInfo.from_yt_dlp_data (models/video.py 68-103): data.get on a list
\* raises AttributeError; a missing view_count defaults to 0.
from_yt_dlp_data(d) ==
    IF d.is_list
    THEN Raise("AttributeError", "'list' object has no attribute 'get'")
    ELSE Ok([kind |-> "VideoInfo", id |-> d.items[1].id,
             view_count |-> IF d.items[1].view_count = NoInt THEN 0
                            ELSE d.items[1].view_count])

\* The PlaylistInfo get_playlist_info builds (lines 256-306).
PlaylistRecord(d) ==
    Ok([kind |-> "PlaylistInfo", video_count |-> Len(d.items),
        videos |-> [i \in 1..Len(d.items) |->
                       [video_id |-> d.items[i].id, playlist_index |-> i]]])

\* The id get_channel_info takes from a record: uploader_id, else channel_id,
\* else "" after the primary query (lines 524, 576); uploader_id or "" after
\* the fallback query (line 629).
ChannelId(v, origin) ==
    IF origin = "primary" THEN GetOr(v.uploader_id, GetOr(v.channel_id, ""))
    ELSE GetOr(v.uploader_id, "")

\* The ChannelInfo get_channel_info builds from the first record of the data
\* (lines 519-599, 610-642); the fallback looks for subscriber_count, which
\* no record of the model carries.
ChannelRecord(d, origin, view) ==
    LET v         == d.items[1]
        has_stats == origin = "primary" /\ v.channel_follower_count # NoInt
    IN  Ok([kind |-> "ChannelInfo", id |-> ChannelId(v, origin), has_stats |-> has_stats,
            view_count |-> IF has_stats THEN view ELSE NoInt])

RECURSIVE SumViews(_)
SumViews(items) ==
    IF items = <<>> THEN 0
    ELSE (IF Head(items).view_count # NoInt THEN Head(items).view_count ELSE 0)
         + SumViews(Tail(items))

\* _calculate_channel_view_count (lines 659-684) on the outcome of its query.
ViewCount(out) ==
    IF out.ok /\ out.is_list /\ \E i \in 1..Len(out.items) : out.items[i].view_count # NoInt
    THEN SumViews(out.items)
    ELSE NoInt

\* What the tool left in the temporary directory: no file, a file that is
\* not JSON, or a file with n comment threads (transcript events).
Files == {[exists |-> FALSE, valid |-> FALSE, n |-> 0],
          [exists |-> TRUE, valid |-> FALSE, n |-> 0],
          [exists |-> TRUE, valid |-> TRUE, n |-> 0],
          [exists |-> TRUE, valid |-> TRUE, n |-> 2]}

NoFiles == [exists |-> FALSE, valid |-> FALSE, n |-> 0]

\* The threads parsed from a comment file, cut to max_comments (lines 349-357).
Comments(n, max_comments_) ==
    LET all == [i \in 1..n |-> [kind |-> "CommentThread", id |-> i]]
    IN  IF max_comments_ # 0 /\ Len(all) > max_comments_
        THEN SubSeq(all, 1, max_comments_)
        ELSE all

\* The Transcript parsed from a subtitle file (lines 442-445).
TranscriptRecord(url, n) == [kind |-> "Transcript", video_id |-> url, entries |-> n]

UsesTempDir(op) == op \in {"comments", "transcript"}

\* The cache key of the call of task t; for search_youtube and
\* get_trending_videos url holds the query and the region, the search type
\* is the default "video" and mc holds max_results (lines 703, 751).
CacheKeyOf(t) ==
    CASE t.op = "video"      -> VideoKey(t.url)
      [] t.op = "playlist"   -> PlaylistKey(t.url)
      [] t.op = "channel"    -> ChannelKey(t.url)
      [] t.op = "transcript" -> TranscriptKey(t.url)
      [] t.op = "search"     -> <<"search", t.url, "video", Str(t.mc)>>
      [] t.op = "trending"   -> <<"trending", t.url, Str(t.mc)>>
      [] OTHER               -> CommentsKey(t.url, t.mc)

\* The coroutine returns or raises res; its local variables are gone.
Finish(t, res) ==
    [t EXCEPT !.pc = "done", !.res = res, !.phase = "none", !.attempt = 0,
              !.last_error = None, !.data = None, !.origin = "none", !.dir = ""]

\* A new call of _run_yt_dlp_with_retry enters its loop and starts the tool.
StartRun(t, phase) ==
    [t EXCEPT !.pc = "running", !.phase = phase, !.attempt = 0, !.calls = @ + 1,
              !.last_error = None]

\* The effect of a step of a task: the task, whether _set_cached_data ran and
\* the cache and the directories it leaves.
Effect(t, stored, c, dirs) == [task |-> t, stored |-> stored, cache |-> c, tmpdirs |-> dirs]

\* What the operation answers from a cached payload (lines 225-226, 249-250,
\* 326-327, 418-419, 509-510); PlaylistInfo and ChannelInfo define no
\* from_yt_dlp_data.
OnCacheHit(t, cached_data) ==
    CASE t.op = "video" -> from_yt_dlp_data(cached_data)
      [] t.op \in {"playlist", "channel"} ->
            Raise("AttributeError", "type object has no attribute 'from_yt_dlp_data'")
      [] OTHER -> Ok(cached_data)

\* get_video_info after _run_yt_dlp_with_retry (lines 229-234).
VideoAfter(t, out) ==
    IF out.ok
    THEN Effect(Finish(t, from_yt_dlp_data(out)), TRUE,
                _set_cached_data(cache, VideoKey(t.url), out, now), tmpdirs)
    ELSE Effect(Finish(t, out), FALSE, cache, tmpdirs)

\* get_playlist_info after _run_yt_dlp_with_retry (lines 253-306).
PlaylistAfter(t, out) ==
    IF out.ok
    THEN Effect(Finish(t, PlaylistRecord(out)), TRUE,
                _set_cached_data(cache, PlaylistKey(t.url), out, now), tmpdirs)
    ELSE Effect(Finish(t, out), FALSE, cache, tmpdirs)

\* Mutant of Cleanup: the directory is left on disk.
CleanupKeeps(dirs, t) == dirs

\* TemporaryDirectory.__exit__: the directory of the call is removed.
Cleanup(dirs, t) == dirs \ {t.dir}

\* get_video_comments after _run_yt_dlp_with_retry (lines 340-361); the
\* with-block removes the directory on every way out.
CommentsAfter(t, out, files) ==
    IF ~out.ok THEN Effect(Finish(t, out), FALSE, cache, Cleanup(tmpdirs, t))
    ELSE IF ~files.exists
         THEN Effect(Finish(t, Ok(Payload(TRUE, <<>>))), FALSE, cache, Cleanup(tmpdirs, t))
    ELSE IF ~files.valid
         THEN Effect(Finish(t, Raise("JSONDecodeError", "json.load")), FALSE, cache,
                     Cleanup(tmpdirs, t))
    ELSE LET comments == Payload(TRUE, Comments(files.n, t.mc))
         IN  Effect(Finish(t, Ok(comments)), TRUE,
                    _set_cached_data(cache, CommentsKey(t.url, t.mc), comments, now),
                    Cleanup(tmpdirs, t))

\* Mutant of TranscriptAfter: the extraction failure reaches the caller.
TranscriptAfterRaises(t, out, files) ==
    IF ~out.ok THEN Effect(Finish(t, out), FALSE, cache, Cleanup(tmpdirs, t))
    ELSE Effect(Finish(t, Ok(None)), FALSE, cache, Cleanup(tmpdirs, t))

\* get_video_transcript after _run_yt_dlp_with_retry (lines 432-452).
TranscriptAfter(t, out, files) ==
    IF ~out.ok THEN Effect(Finish(t, Ok(None)), FALSE, cache, Cleanup(tmpdirs, t))
    ELSE IF ~files.exists
         THEN Effect(Finish(t, Ok(None)), FALSE, cache, Cleanup(tmpdirs, t))
    ELSE IF ~files.valid
         THEN Effect(Finish(t, Raise("JSONDecodeError", "json.load")), FALSE, cache,
                     Cleanup(tmpdirs, t))
    ELSE LET transcript == Payload(FALSE, <<TranscriptRecord(t.url, files.n)>>)
         IN  Effect(Finish(t, Ok(transcript)), TRUE,
                    _set_cached_data(cache, TranscriptKey(t.url), transcript, now),
                    Cleanup(tmpdirs, t))

\* get_channel_info (lines 512-647): the primary query, on its failure the
\* fallback query, and after either the view-count query.
ChannelAfter(t, out) ==
    CASE t.phase = "primary" ->
            IF out.ok
            THEN Effect(StartRun([t EXCEPT !.data = out, !.origin = "primary"], "views"),
                        FALSE, cache, tmpdirs)
            ELSE Effect(StartRun(t, "fallback"), FALSE, cache, tmpdirs)
      [] t.phase = "fallback" ->
            IF out.ok /\ out.is_list
            THEN Effect(StartRun([t EXCEPT !.data = out, !.origin = "fallback"], "views"),
                        FALSE, cache, tmpdirs)
            ELSE Effect(Finish(t, Raise("YouTubeExtractorError",
                                        "Failed to extract channel info")),
                        FALSE, cache, tmpdirs)
      [] OTHER ->
            Effect(Finish(t, ChannelRecord(t.data, t.origin, ViewCount(out))), TRUE,
                   _set_cached_data(cache, ChannelKey(t.url), t.data, now), tmpdirs)

\* search_youtube with search_type "video" and get_trending_videos after
\* _run_yt_dlp_with_retry (lines 714-738, 761-773): a list is cached and
\* returned, a single record is returned as a list of one without being
\* cached, and an extraction failure gives the empty list.
ListAfter(t, out) ==
    IF ~out.ok THEN Effect(Finish(t, Ok(Payload(TRUE, <<>>))), FALSE, cache, tmpdirs)
    ELSE IF out.is_list
         THEN Effect(Finish(t, Ok(out)), TRUE,
                     _set_cached_data(cache, CacheKeyOf(t), out, now), tmpdirs)
    ELSE Effect(Finish(t, Ok(Payload(TRUE, out.items))), FALSE, cache, tmpdirs)

\* The operation continues after its call of _run_yt_dlp_with_retry gave out.
After(t, out, files) ==
    CASE t.op = "video"      -> VideoAfter(t, out)
      [] t.op = "playlist"   -> PlaylistAfter(t, out)
      [] t.op = "comments"   -> CommentsAfter(t, out, files)
      [] t.op = "transcript" -> TranscriptAfter(t, out, files)
      [] t.op \in {"search", "trending"} -> ListAfter(t, out)
      [] OTHER               -> ChannelAfter(t, out)

(***************************************************************************)
(* The event loop.  A request is one server tool call: a single operation  *)
(* ("call"), batch_extract ("batch") or clear_cache.  Tasks start in the   *)
(* order of their creation, and a task that has started runs to its end    *)
(* before the loop resumes another, since no operation suspends.           *)
(***************************************************************************)
DirNames == {"d1", "d2"}

ToolResults ==
    {[kind |-> "exit0", stdout |-> <<"A">>],
     [kind |-> "exit0", stdout |-> <<"B">>],
     [kind |-> "exit0", stdout |-> <<"B", NL, "A">>],
     [kind |-> "exit0", stdout |-> <<"x">>],
     [kind |-> "exit0", stdout |-> <<" ">>],
     [kind |-> "nonzero", stdout |-> <<>>],
     [kind |-> "timeout", stdout |-> <<>>]}

Live(t) == t.pc \in {"running", "sleeping"}

AllDone == \A i \in 1..Len(tasks) : tasks[i].pc = "done"

Idle == req.state \in {"idle", "returned"}

\* The loop resumes task i: it is the oldest task not yet run and no task
\* holds the thread.
CanStart(i) ==
    /\ req.state = "active"
    /\ tasks[i].pc = "pending"
    /\ \A j \in 1..Len(tasks) : j # i => ~Live(tasks[j])
    /\ \A j \in 1..(i - 1) : tasks[j].pc = "done"

\* Mutant of RetryAgain: two retries too many.
RetryAgainTwoMore(attempt) == attempt < max_retries + 2

\* Mutant of RetryAgain: one retry too many.
RetryAgainOffByOne(attempt) == attempt <= max_retries

\* "if attempt < self.max_retries" (line 120).
RetryAgain(attempt) == attempt < max_retries

\* "self.retry_delay *= 2" (line 124).
NextDelay(delay) == delay * 2

\* Mutant of valid_results: a failed target keeps its place in the result.
valid_results_keep_failed(results) == results

\* The filter of batch_extract (lines 807-815) over the gathered results.
RECURSIVE valid_results(_)
valid_results(results) ==
    IF results = <<>> THEN <<>>
    ELSE (IF Head(results).ok THEN <<Head(results).value>> ELSE <<>>)
         \o valid_results(Tail(results))

\* A server tool calls one operation of the extractor (server.py 240, 303).
Call(op, url, max_comments_) ==
    /\ Idle
    /\ hist.n < MaxCalls
    /\ tasks' = <<Task(op, url, max_comments_)>>
    /\ req' = [kind |-> "call", state |-> "active"]
    /\ hist' = [hist EXCEPT !.n = @ + 1]
    /\ UNCHANGED <<proc, decoded, extractorVars, last, tmpdirs, run>>

\* batch_extract creates one coroutine per url and gathers them (lines 790-805).
CallBatch(extract_type, urls) ==
    /\ req.state = "idle"
    /\ tasks' = [i \in 1..Len(urls) |-> Task(extract_type, urls[i], 0)]
    /\ req' = [kind |-> "batch", state |-> "active"]
    /\ UNCHANGED <<proc, decoded, extractorVars, last, tmpdirs, run, hist>>

\* clear_extractor_cache (server.py 785).
CallClear ==
    /\ Idle
    /\ hist.n < MaxCalls
    /\ cache' = clear_cache(cache)
    /\ tasks' = <<>>
    /\ req' = [kind |-> "clear", state |-> "returned"]
    /\ hist' = [n |-> hist.n + 1, prev |-> [op |-> "clear"]]
    /\ UNCHANGED <<proc, decoded, configVars, retry_delay, has_cache, lru, now, last,
                   tmpdirs, run>>

\* The coroutine runs from its start to its first subprocess.run: the cache
\* lookup, the answer from the cache or the temporary directory and the tool.
StartTask(i) ==
    /\ CanStart(i)
    /\ LET t == tasks[i]
           r == _get_cached_data(lru, cache, CacheKeyOf(t), now)
       IN  /\ lru' = r.lru
           /\ cache' = r.cache
           /\ IF Truthy(r.ret)
              THEN /\ tasks' = [tasks EXCEPT ![i] = Finish(t, OnCacheHit(t, r.ret))]
                   /\ UNCHANGED <<tmpdirs, run>>
              ELSE IF UsesTempDir(t.op)
              THEN \E d \in DirNames \ tmpdirs :
                       /\ tasks' = [tasks EXCEPT ![i] = StartRun([t EXCEPT !.dir = d], "primary")]
                       /\ tmpdirs' = tmpdirs \cup {d}
                       /\ run' = NewRun(i)
              ELSE /\ tasks' = [tasks EXCEPT ![i] = StartRun(t, "primary")]
                   /\ run' = NewRun(i)
                   /\ UNCHANGED tmpdirs
    /\ UNCHANGED <<proc, decoded, configVars, retry_delay, has_cache, now, last, req, hist>>

\* subprocess.run ends with p: _run_yt_dlp decodes it, the retry loop either
\* returns, goes to sleep or gives up, and the operation continues up to its
\* next blocking call.
ToolExit(i, p, files) ==
    /\ i \in 1..Len(tasks)
    /\ tasks[i].pc = "running"
    /\ (files # NoFiles) => (UsesTempDir(tasks[i].op) /\ _run_yt_dlp(p).ok)
    /\ LET r == _run_yt_dlp(p)
           t == tasks[i]
       IN  IF ~r.ok /\ RetryAgain(t.attempt)
           THEN /\ tasks' = [tasks EXCEPT ![i] = [t EXCEPT !.pc = "sleeping", !.last_error = r]]
                /\ run' = [run EXCEPT !.lastproc = p, !.sleeps = Append(@, retry_delay)]
                /\ UNCHANGED <<cache, has_cache, tmpdirs>>
           ELSE LET out == IF r.ok THEN r ELSE ExtractionFailed(max_retries + 1, r)
                    e   == After(t, out, files)
                IN  /\ tasks' = [tasks EXCEPT ![i] = e.task]
                    /\ run' = IF e.task.pc = "running" THEN NewRun(i)
                               ELSE [run EXCEPT !.lastproc = p, !.out = out, !.files = files]
                    /\ cache' = e.cache
                    /\ has_cache' = (has_cache \/ (e.stored /\ enable_cache))
                    /\ tmpdirs' = e.tmpdirs
    /\ UNCHANGED <<proc, decoded, configVars, retry_delay, lru, now, last, req, hist>>

\* time.sleep(self.retry_delay) ends: the delay is doubled and the next
\* attempt starts the tool (lines 122-124, 115-117).
Wake(i) ==
    /\ i \in 1..Len(tasks)
    /\ tasks[i].pc = "sleeping"
    /\ retry_delay' = NextDelay(retry_delay)
    /\ tasks' = [tasks EXCEPT ![i] = [@ EXCEPT !.pc = "running", !.attempt = @ + 1,
                                               !.calls = @ + 1]]
    /\ run' = [run EXCEPT !.tries = @ + 1]
    /\ UNCHANGED <<proc, decoded, configVars, has_cache, cache, lru, now, last, req,
                   tmpdirs, hist>>

\* The request returns to the server: the result of the one operation, or
\* the filtered results of the gathered ones.
Return ==
    /\ req.state = "active"
    /\ AllDone
    /\ IF req.kind = "batch"
       THEN /\ req' = [kind |-> "batch", state |-> "returned",
                       ret |-> Ok(valid_results([i \in 1..Len(tasks) |-> tasks[i].res]))]
            /\ UNCHANGED hist
       ELSE /\ req' = [kind |-> "call", state |-> "returned", ret |-> tasks[1].res]
            /\ hist' = [hist EXCEPT !.prev =
                           IF tasks[1].op = "video"
                           THEN [op |-> "video", url |-> tasks[1].url, res |-> tasks[1].res]
                           ELSE [op |-> tasks[1].op]]
    /\ UNCHANGED <<proc, decoded, extractorVars, last, tasks, tmpdirs, run>>

\* One step of the event loop, the tool's outcomes drawn from results.
TaskStepOver(results) ==
    \/ \E i \in 1..MaxBatch : i <= Len(tasks) /\ StartTask(i)
    \/ \E i \in 1..MaxBatch, p \in results, files \in Files : ToolExit(i, p, files)
    \/ \E i \in 1..MaxBatch : Wake(i)
    \/ Return

TaskStep == TaskStepOver(ToolResults)

(***************************************************************************)
(* Spec: up to MaxCalls server tool calls of get_video_info and            *)
(* clear_extractor_cache, one after the other, on one extractor with the   *)
(* cache enabled.  The clock stands still, so every call is made within    *)
(* the TTL of every entry.                                                 *)
(***************************************************************************)
Init == InitExtractor /\ InitIdle /\ enable_cache = TRUE

Next ==
    \/ \E url \in Urls : Call("video", url, 0)
    \/ CallClear
    \/ TaskStep

Spec == Init /\ [][Next]_vars

(***************************************************************************)
(* SpecTemp: up to MaxCalls server tool calls of get_video_comments and    *)
(* get_video_transcript, the operations that work in a temporary           *)
(* directory.                                                              *)
(***************************************************************************)
InitTemp == InitExtractor /\ InitIdle /\ enable_cache = TRUE /\ max_retries <= 1

NextTemp ==
    \/ \E url \in Urls, mc \in 0..1 : Call("comments", url, mc)
    \/ \E url \in Urls : Call("transcript", url, 0)
    \/ TaskStep

SpecTemp == InitTemp /\ [][NextTemp]_vars

(***************************************************************************)
(* SpecBatch: one batch_extract over up to MaxBatch targets on a new       *)
(* extractor.                                                              *)
(***************************************************************************)
ExtractTypes == {"video", "channel", "playlist"}

\* Lists of one repeated target and lists of alternating targets.
BatchTargets ==
    {[i \in 1..n |-> "u1"] : n \in 1..MaxBatch}
        \cup {[i \in 1..n |-> IF i % 2 = 1 THEN "u1" ELSE "u2"] : n \in 1..MaxBatch}

\* The tool's outcomes in a batch: one record, two records, failure.
BatchToolResults ==
    {p \in ToolResults : p.kind = "nonzero" \/ p.stdout \in {<<"A">>, <<"B", NL, "A">>}}

InitBatch == InitExtractor /\ InitIdle /\ enable_cache = TRUE /\ max_retries <= 1

NextBatch ==
    \/ \E extract_type \in ExtractTypes, urls \in BatchTargets : CallBatch(extract_type, urls)
    \/ TaskStepOver(BatchToolResults)

SpecBatch == InitBatch /\ [][NextBatch]_vars

(***************************************************************************)
(* Claims about the retry loop, checked on Spec.                           *)
(***************************************************************************)
RunOver == run.out # None

\* C1: a call of _run_yt_dlp_with_retry whose attempts all fail invokes the
\* tool max_retries + 1 times and raises a failure that states that count
\* and carries the last underlying error; a call whose attempt k is the
\* first to succeed invokes the tool k times, k <= max_retries + 1, and
\* returns what that attempt decoded.
C1_RetryCount ==
    RunOver =>
        /\ Len(run.sleeps) = run.tries - 1
        /\ run.tries <= max_retries + 1
        /\ run.out.ok => run.out = _run_yt_dlp(run.lastproc)
        /\ ~run.out.ok =>
              /\ run.tries = max_retries + 1
              /\ run.out.attempts = max_retries + 1
              /\ ~_run_yt_dlp(run.lastproc).ok
              /\ run.out.cause = _run_yt_dlp(run.lastproc).msg

C1_Witness ==
    /\ RunOver
    /\ ~run.out.ok
    /\ max_retries = 2
    /\ run.tries = 3
    /\ run.out.attempts = 3
    /\ run.lastproc.kind = "timeout"

\* C7: in every call of _run_yt_dlp_with_retry the first sleep lasts the
\* configured retry_delay and every later sleep twice the one before it.
C7_BackoffFromBase ==
    \A k \in 1..Len(run.sleeps) :
        run.sleeps[k] = IF k = 1 THEN DefaultRetryDelay ELSE 2 * run.sleeps[k - 1]

\* C6: a get_video_info call that follows a successful get_video_info call
\* for the same url, within the TTL and with the cache enabled, does not
\* invoke the tool and returns the same VideoInfo.
C6_SecondCallFromCache ==
    ( /\ req.kind = "call"
      /\ req.state = "active"
      /\ AllDone
      /\ tasks[1].op = "video"
      /\ hist.prev.op = "video"
      /\ hist.prev.url = tasks[1].url
      /\ hist.prev.res.ok )
        => (tasks[1].calls = 0 /\ tasks[1].res = hist.prev.res)

(***************************************************************************)
(* Claims about the temporary directories, checked on SpecTemp.            *)
(***************************************************************************)
TempTask(i) == UsesTempDir(tasks[i].op) /\ Live(tasks[i])

\* C10: while a call of get_video_comments or get_video_transcript is at
\* the tool or asleep its directory exists and belongs to no other call,
\* and once the call has returned or raised no directory is left.
C10_TempDirs ==
    /\ \A i \in 1..Len(tasks) : TempTask(i) => tasks[i].dir \in tmpdirs
    /\ \A i, j \in 1..Len(tasks) :
           (TempTask(i) /\ TempTask(j) /\ i # j) => tasks[i].dir # tasks[j].dir
    /\ \A d \in tmpdirs : \E i \in 1..Len(tasks) : TempTask(i) /\ tasks[i].dir = d
    /\ (\A i \in 1..Len(tasks) : tasks[i].pc = "done") => tmpdirs = {}

C10_Witness ==
    /\ req.state = "active"
    /\ AllDone
    /\ tasks[1].op = "comments"
    /\ tasks[1].calls = 2
    /\ ~tasks[1].res.ok
    /\ tasks[1].res.exc = "YouTubeExtractorError"
    /\ hist.n = 2
    /\ tmpdirs = {}

(***************************************************************************)
(* Claims about batch_extract, checked on SpecBatch.                       *)
(***************************************************************************)
Succeeded == {i \in 1..Len(tasks) : tasks[i].res.ok}

\* The k-th target, in submission order, whose operation succeeded.
KthSucceeded(k) == CHOOSE i \in Succeeded : Cardinality({j \in Succeeded : j <= i}) = k

BatchReturned == req.kind = "batch" /\ req.state = "returned"

\* C3: batch_extract returns normally whatever its targets did, and its
\* result holds the results of the targets that succeeded, in submission
\* order, with nothing in the place of a failed target.
C3_BatchFilter ==
    BatchReturned =>
        /\ req.ret.ok
        /\ Len(req.ret.value) = Cardinality(Succeeded)
        /\ \A k \in 1..Len(req.ret.value) :
               req.ret.value[k] = tasks[KthSucceeded(k)].res.value
        /\ Cardinality({i \in 1..Len(tasks) : ~tasks[i].res.ok})
               = Len(tasks) - Len(req.ret.value)

C3_Witness ==
    /\ BatchReturned
    /\ Len(tasks) = 3
    /\ tasks[1].res.ok
    /\ ~tasks[2].res.ok
    /\ tasks[3].res.ok
    /\ Len(req.ret.value) = 2
    /\ req.ret.value[2] = tasks[3].res.value

\* C4: while one target of a batch waits for the tool or sleeps, the
\* extraction of a target that has not started yet can start.
C4_StartNotDelayed ==
    \A i, j \in 1..Len(tasks) :
        (req.kind = "batch" /\ Live(tasks[i]) /\ tasks[j].pc = "pending")
            => ENABLED StartTask(j)

(***************************************************************************)
(* Claims about get_video_transcript, checked on SpecTemp.                 *)
(***************************************************************************)
TranscriptDone ==
    /\ req.kind = "call"
    /\ req.state = "active"
    /\ AllDone
    /\ tasks[1].op = "transcript"

IsTranscript(res) == res.ok /\ res.value # None

\* C11: get_video_transcript raises no extraction failure; it returns None
\* when every attempt failed and when the tool succeeded without leaving a
\* subtitle file; it returns a Transcript only after a successful invocation
\* that left a file, and only then is the cache written.
C11_TranscriptAbsent ==
    /\ \A url \in Urls :
           TranscriptKey(url) \in DOMAIN cache =>
               /\ Truthy(cache[TranscriptKey(url)][1])
               /\ cache[TranscriptKey(url)][1].items[1].video_id = url
    /\ TranscriptDone =>
          LET res == tasks[1].res
              key == TranscriptKey(tasks[1].url)
          IN  /\ res.ok \/ res.exc # "YouTubeExtractorError"
              /\ ~run.out.ok => res = Ok(None)
              /\ (run.out.ok /\ ~run.files.exists) => res = Ok(None)
              /\ IsTranscript(res) =>
                    /\ run.out.ok /\ run.files.exists
                    /\ key \in DOMAIN cache /\ cache[key][1] = res.value
              /\ (~IsTranscript(res) /\ hist.n = 1) => key \notin DOMAIN cache

C11_Witness ==
    /\ TranscriptDone
    /\ tasks[1].calls = 2
    /\ ~run.out.ok
    /\ run.out.attempts = 2
    /\ tasks[1].res = Ok(None)
    /\ cache = EmptyCache

(***************************************************************************)
(* Claims about clear_cache and the disabled cache, checked on SpecCache.  *)
(***************************************************************************)
\* C12: clear_cache leaves the mapping empty, and a lookup of a key that
\* the mapping does not hold returns None, also when an earlier lookup of
\* that key returned a payload.
C12_ClearForgets ==
    /\ last.op = "clear" => Cardinality(DOMAIN cache) = 0
    /\ (last.op = "lookup" /\ last.key \notin DOMAIN cache) => last.ret = None
(***************************************************************************)
(* SpecDisabled: an extractor constructed with enable_cache = False, on    *)
(* which get_video_info is called and, between calls, the cache methods.   *)
(***************************************************************************)
InitDisabled == InitExtractor /\ InitIdle /\ enable_cache = FALSE /\ max_retries <= 1

NextDisabled ==
    \/ \E url \in Urls : Call("video", url, 0)
    \/ \E key \in CacheKeys : Idle /\ Lookup(key)
    \/ \E key \in CacheKeys, data \in CachePayloads : Idle /\ Store(key, data)
    \/ TaskStep

SpecDisabled == InitDisabled /\ [][NextDisabled]_vars

VideoDone ==
    /\ req.kind = "call"
    /\ req.state = "active"
    /\ AllDone
    /\ tasks[1].op = "video"

\* C13: with enable_cache = False the mapping never holds an entry, every
\* lookup returns None, every store leaves the cache as it was, and every
\* get_video_info call invokes the tool and returns what the extraction and
\* the mapping to VideoInfo give.
C13_DisabledCache ==
    /\ cache = EmptyCache
    /\ ~has_cache
    /\ last.op = "lookup" => last.ret = None
    /\ \A key \in CacheKeys : ~Truthy(_get_cached_data(lru, cache, key, now).ret)
    /\ VideoDone =>
          /\ tasks[1].calls >= 1
          /\ tasks[1].calls = run.tries
          /\ tasks[1].res = IF run.out.ok THEN from_yt_dlp_data(run.out) ELSE run.out

C13_Witness ==
    /\ ~enable_cache
    /\ VideoDone
    /\ hist.n = 2
    /\ hist.prev.op = "video"
    /\ hist.prev.url = tasks[1].url
    /\ hist.prev.res.ok
    /\ last.op = "store"
    /\ last.key = VideoKey(tasks[1].url)
    /\ tasks[1].res.ok
    /\ tasks[1].res # hist.prev.res

(***************************************************************************)
(* SpecKeys: the cache keys as the f-strings build them, for every pair of *)
(* operation calls whose text arguments have at most MaxText characters.   *)
(* A key is a sequence of characters; the literal that opens a key is one  *)
(* element, since no argument of the model can spell it.                   *)
(***************************************************************************)
TextChars == {"a", ":"}

Texts == SeqsUpTo(TextChars, MaxText) \ {<<>>}

DigitChars == <<"0", "1", "2", "3", "4", "5", "6", "7", "8", "9">>

\* str(n) of a natural number.
RECURSIVE Digits(_)
Digits(n) == IF n < 10 THEN <<DigitChars[n + 1]>>
             ELSE Digits(n \div 10) \o <<DigitChars[(n % 10) + 1]>>

\* The operations with a url only, and the search types the server admits.
UrlOps == {"video_info", "playlist_info", "transcript", "channel_info"}

SearchTypes == {"video", "channel", "playlist"}

ResultCounts == {1, 12}

CommentLimits == {NoInt, 0, 1, 12}

KeyCalls ==
    [op : UrlOps, target : Texts, kind : {"none"}, num : {NoInt}]
        \cup [op : {"comments"}, target : Texts, kind : {"none"}, num : CommentLimits]
        \cup [op : {"search"}, target : Texts, kind : SearchTypes, num : ResultCounts]
        \cup [op : {"trending"}, target : Texts, kind : {"none"}, num : ResultCounts]

\* Mutant of SearchKeyText: the search type is left out of the key.
SearchKeyTextNoType(query, search_type, max_results) ==
    <<"search", ":">> \o query \o <<":">> \o Digits(max_results)

\* f"search:{query}:{search_type}:{max_results}" (line 703).
SearchKeyText(query, search_type, max_results) ==
    <<"search", ":">> \o query \o <<":", search_type, ":">> \o Digits(max_results)

\* f"comments:{url}:{max_comments or 'all'}" (line 323).
CommentsKeyText(url, max_comments_) ==
    <<"comments", ":">> \o url \o <<":">>
        \o (IF max_comments_ \in {NoInt, 0} THEN <<"a", "l", "l">> ELSE Digits(max_comments_))

\* f"trending:{region}:{max_results}" (line 751).
TrendingKeyText(region, max_results) ==
    <<"trending", ":">> \o region \o <<":">> \o Digits(max_results)

\* The cache key of a call (lines 222, 246, 323, 415, 506, 703, 751).
KeyText(c) ==
    CASE c.op = "comments" -> CommentsKeyText(c.target, c.num)
      [] c.op = "search"   -> SearchKeyText(c.target, c.kind, c.num)
      [] c.op = "trending" -> TrendingKeyText(c.target, c.num)
      [] OTHER             -> <<c.op, ":">> \o c.target

InitKeys ==
    /\ InitExtractor /\ max_retries = 0 /\ enable_cache = TRUE
    /\ proc = [kind |-> "exit0", stdout |-> <<>>]
    /\ decoded = NotDecoded
    /\ last \in [op : {"pair"}, a : KeyCalls, b : KeyCalls, ka : {<<>>}, kb : {<<>>}]
    /\ tasks = <<>>
    /\ req = NoRequest
    /\ tmpdirs = {}
    /\ run = NoRun
    /\ hist = NoPrev

BuildKeys ==
    /\ last.op = "pair"
    /\ last' = [last EXCEPT !.op = "keys", !.ka = KeyText(last.a), !.kb = KeyText(last.b)]
    /\ UNCHANGED <<proc, decoded, extractorVars, loopVars>>

NextKeys == BuildKeys

SpecKeys == InitKeys /\ [][NextKeys]_vars

\* The limit get_video_comments applies: None and 0 both mean no limit.
Limit(c) == IF c.op = "comments" /\ c.num = 0 THEN NoInt ELSE c.num

SameRequest(a, b) ==
    /\ a.op = b.op
    /\ a.target = b.target
    /\ a.kind = b.kind
    /\ Limit(a) = Limit(b)

CommentsDone ==
    /\ req.kind = "call"
    /\ req.state = "active"
    /\ AllDone
    /\ tasks[1].op = "comments"

Min(a, b) == IF a <= b THEN a ELSE b

\* C15: get_video_comments returns the first min(max_comments, total)
\* threads of the extraction, in extraction order, for every max_comments.
C15_AtMostMax ==
    (CommentsDone /\ tasks[1].res.ok) =>
        LET total == IF run.files.exists THEN run.files.n ELSE 0
            k     == Min(tasks[1].mc, total)
        IN  tasks[1].res.value.items = [i \in 1..k |-> [kind |-> "CommentThread", id |-> i]]

(***************************************************************************)
(* SpecStats: get_health_status and get_cache_stats on an extractor whose  *)
(* cache is written and cleared.                                           *)
(***************************************************************************)
DefaultTimeout == 300

KeyPreview == 10

\* What subprocess.run of "yt-dlp --version" can do: print a version and
\* exit 0, exit non-zero, run into the timeout, or not find the tool.
VersionResults ==
    {[kind |-> "exit0", stdout |-> <<"x", NL>>],
     [kind |-> "nonzero", stdout |-> <<>>],
     [kind |-> "timeout", stdout |-> <<>>],
     [kind |-> "missing", stdout |-> <<>>]}

\* len(getattr(self, '_cache', {})) (line 838).
CacheSize == IF has_cache THEN Cardinality(DOMAIN cache) ELSE 0

\* cache_keys[:10]: at most KeyPreview of the keys, as a set.
FirstKeys(keys) ==
    IF Cardinality(keys) <= KeyPreview THEN keys
    ELSE CHOOSE S \in SUBSET keys : Cardinality(S) = KeyPreview

\* Mutant of get_health_status: the failure to run the tool is not caught.
get_health_status_uncaught(p) ==
    IF p.kind \in {"timeout", "missing"} THEN Raise("Exception", p.kind)
    ELSE Ok([status |-> "healthy", yt_dlp_available |-> TRUE])

\* get_health_status (lines 817-859) when the version query does p.
get_health_status(p) ==
    IF p.kind \in {"timeout", "missing"}
    THEN Ok([status |-> "error", error |-> p.kind, yt_dlp_available |-> FALSE])
    ELSE LET yt_dlp_healthy == p.kind = "exit0"
         IN  Ok([status |-> IF yt_dlp_healthy THEN "healthy" ELSE "unhealthy",
                 yt_dlp_available |-> yt_dlp_healthy,
                 yt_dlp_version |-> IF yt_dlp_healthy THEN Strip(p.stdout) ELSE None,
                 cache |-> [enabled |-> enable_cache, size |-> CacheSize, ttl |-> cache_ttl],
                 config |-> [rate_limit |-> None, max_retries |-> max_retries,
                             timeout |-> DefaultTimeout]])

\* get_cache_stats (lines 867-881).
get_cache_stats ==
    IF ~has_cache
    THEN Ok([enabled |-> FALSE, size |-> 0, ttl |-> cache_ttl])
    ELSE Ok([enabled |-> enable_cache, size |-> Cardinality(DOMAIN cache), ttl |-> cache_ttl,
             keys |-> FirstKeys(DOMAIN cache), total_keys |-> Cardinality(DOMAIN cache)])

HealthStatus(p) ==
    /\ last' = [op |-> "health", key |-> <<>>, ret |-> get_health_status(p), proc |-> p]
    /\ UNCHANGED <<proc, decoded, extractorVars, loopVars>>

CacheStats ==
    /\ last' = [op |-> "stats", key |-> <<>>, ret |-> get_cache_stats]
    /\ UNCHANGED <<proc, decoded, extractorVars, loopVars>>

InitStats == InitExtractor /\ InitIdle

NextStats ==
    \/ \E p \in VersionResults : HealthStatus(p)
    \/ CacheStats
    \/ \E key \in CacheKeys, data \in CachePayloads : Store(key, data)
    \/ Clear

SpecStats == InitStats /\ [][NextStats]_vars

HealthRan == last.op = "health" /\ last.proc.kind \in {"exit0", "nonzero"}

HealthNotRun == last.op = "health" /\ last.proc.kind \in {"timeout", "missing"}

\* C16 as stated: get_health_status returns, in every case, a report with
\* the availability flag, the version (or none), the cache stats and the
\* configuration.
C16_FullReport ==
    last.op = "health" =>
        /\ last.ret.ok
        /\ {"yt_dlp_available", "yt_dlp_version", "cache", "config"}
               \subseteq DOMAIN last.ret.value
        /\ last.ret.value.yt_dlp_available = (last.proc.kind = "exit0")

\* C16 amended: get_health_status never raises and always reports the
\* availability flag, false unless the tool exited with 0; the version, the
\* cache stats and the configuration are reported when the tool ran to an
\* exit, and only status, error and the flag when it timed out or is missing.
C16_HealthReport ==
    /\ last.op = "health" =>
          /\ last.ret.ok
          /\ last.ret.value.yt_dlp_available = (last.proc.kind = "exit0")
    /\ HealthRan =>
          /\ last.ret.value.yt_dlp_version =
                 IF last.proc.kind = "exit0" THEN <<"x">> ELSE None
          /\ last.ret.value.cache =
                 [enabled |-> enable_cache, size |-> CacheSize, ttl |-> cache_ttl]
          /\ last.ret.value.config.max_retries = max_retries
          /\ last.ret.value.config.timeout = DefaultTimeout
    /\ HealthNotRun =>
          /\ DOMAIN last.ret.value = {"status", "error", "yt_dlp_available"}
          /\ last.ret.value.status = "error"

C16_Witness ==
    /\ HealthNotRun
    /\ last.proc.kind = "missing"
    /\ last.ret.ok
    /\ ~last.ret.value.yt_dlp_available
    /\ CacheSize = 2

\* C17: get_cache_stats reports the configured enable_cache, the number of
\* entries, the configured ttl and at most 10 keys, also before the first
\* store, and the cache section of get_health_status reports the same
\* enabled flag and size.
C17_StatsMatchConfig ==
    /\ last.op = "stats" =>
          /\ last.ret.value.enabled = enable_cache
          /\ last.ret.value.size = Cardinality(DOMAIN cache)
          /\ last.ret.value.ttl = cache_ttl
          /\ "keys" \in DOMAIN last.ret.value =>
                 Cardinality(last.ret.value.keys) <= KeyPreview
    /\ HealthRan =>
          /\ last.ret.value.cache.enabled = get_cache_stats.value.enabled
          /\ last.ret.value.cache.size = get_cache_stats.value.size

(***************************************************************************)
(* SpecServer: the server tools get_video_info and batch_extract_urls,     *)
(* which validate their targets before they call the extractor.  A url is  *)
(* a sequence of parts: a scheme, user info, domains, a port and a path.   *)
(***************************************************************************)
Scheme == "https://"

UserInfo == "user@"

Port == ":443"

Path == "/watch"

valid_domains == {"youtube.com", "www.youtube.com", "youtu.be", "m.youtube.com"}

ServerUrls ==
    {<<>>,
     <<Scheme, "youtube.com", Path>>,
     <<Scheme, "youtu.be", Path>>,
     <<Scheme, "evil.com", Path>>,
     <<"youtube.com", Path>>,
     <<Scheme, "youtube.com", "evil.com", Path>>,
     <<Scheme, UserInfo, "evil.com", Path, "youtube.com">>,
     <<Scheme, "youtube.com", Port, Path>>}

\* The parts of s before its first path part.
RECURSIVE UpToPath(_)
UpToPath(s) ==
    IF s = <<>> \/ Head(s) = Path THEN <<>> ELSE <<Head(s)>> \o UpToPath(Tail(s))

\* urlparse(url).netloc: what stands between the scheme and the path; a
\* url without a scheme has none.
netloc(url) == IF url # <<>> /\ Head(url) = Scheme THEN UpToPath(Tail(url)) ELSE <<>>

\* Mutant of is_valid_youtube_url: a valid domain anywhere in the url will do.
is_valid_youtube_url_anywhere(url) == \E i \in 1..Len(url) : url[i] \in valid_domains

\* is_valid_youtube_url (utils/url_utils.py 35-56): parsed.netloc in valid_domains.
is_valid_youtube_url(url) == netloc(url) \in {<<d>> : d \in valid_domains}

\* validate_youtube_url (server.py 94-102): the error it raises, or Ok.
validate_youtube_url(url) ==
    IF url = <<>> THEN Raise("InvalidURLError", "URL is required")
    ELSE IF ~is_valid_youtube_url(url) THEN Raise("InvalidURLError", "Invalid YouTube URL")
    ELSE Ok(url)

\* The get_video_info tool (server.py 237-240).
ToolGetVideoInfo(url) ==
    IF validate_youtube_url(url).ok
    THEN Call("video", url, 0)
    ELSE /\ Idle
         /\ hist.n < MaxCalls
         /\ tasks' = <<>>
         /\ req' = [kind |-> "call", state |-> "returned", ret |-> validate_youtube_url(url),
                    targets |-> <<url>>]
         /\ hist' = [n |-> hist.n + 1, prev |-> [op |-> "rejected"]]
         /\ UNCHANGED <<proc, decoded, extractorVars, last, tmpdirs, run>>

\* The batch_extract_urls tool (server.py 715-724).
ToolBatchExtractUrls(extract_type, urls) ==
    IF \A i \in 1..Len(urls) : validate_youtube_url(urls[i]).ok
    THEN CallBatch(extract_type, urls)
    ELSE /\ req.state = "idle"
         /\ tasks' = <<>>
         /\ req' = [kind |-> "batch", state |-> "returned",
                    ret |-> Raise("RuntimeError", "Invalid URL in list"), targets |-> urls]
         /\ UNCHANGED <<proc, decoded, extractorVars, last, tmpdirs, run, hist>>

ServerBatches == {<<a, b>> : a, b \in ServerUrls}

InitServer == InitExtractor /\ InitIdle /\ enable_cache = TRUE /\ max_retries <= 1

NextServer ==
    \/ \E url \in ServerUrls : ToolGetVideoInfo(url)
    \/ \E urls \in ServerBatches : ToolBatchExtractUrls("video", urls)
    \/ TaskStepOver(BatchToolResults)

SpecServer == InitServer /\ [][NextServer]_vars

\* The host of a url: its netloc without user info and port.
HostOf(url) == SelectSeq(netloc(url), LAMBDA part : part \notin {UserInfo, Port})

HostAllowed(url) == url # <<>> /\ Len(HostOf(url)) = 1 /\ HostOf(url)[1] \in valid_domains

Rejected == req.state = "returned" /\ "targets" \in DOMAIN req

ChannelToolResults ==
    {p \in ToolResults : p.kind = "nonzero" \/ p.stdout \in {<<"A">>, <<"B">>, <<"B", NL, "A">>}}

InitChannel == InitExtractor /\ InitIdle /\ enable_cache = TRUE /\ max_retries <= 1

NextChannel ==
    \/ \E url \in Urls : Call("channel", url, 0)
    \/ TaskStepOver(ChannelToolResults)

SpecChannel == InitChannel /\ [][NextChannel]_vars

HasChannelIds(v) == v.uploader_id # NoKey \/ v.channel_id # NoKey

\* C19: get_channel_info goes on with the record of the primary query only
\* if that record names the channel (otherwise it runs the fallback query),
\* and a record that carries both uploader_id and channel_id gives a
\* non-empty id.
C19_FallbackWithoutIds ==
    \A i \in 1..Len(tasks) :
        (tasks[i].op = "channel" /\ tasks[i].phase = "views") =>
            LET v == tasks[i].data.items[1]
            IN  /\ tasks[i].origin = "primary" => HasChannelIds(v)
                /\ (v.uploader_id # NoKey /\ v.channel_id # NoKey)
                       => ChannelId(v, tasks[i].origin) # ""

(***************************************************************************)
(* SpecRatio: VideoInfo.__init__ applied to the statistics of a video.  A  *)
(* ratio is the exact fraction <<count, view_count>>.                      *)
(***************************************************************************)
ViewCounts == {0, 1, 2, 1000}

LikeCounts == {NoInt, 0, 1, 50}

CommentCounts == {NoInt, 0, 1, 10}

\* "if count and self.stats.view_count > 0: ratio = count / view_count"
\* (models/video.py 61-66); None is what the field holds otherwise.
Ratio(count, view_count) ==
    IF count # NoInt /\ count # 0 /\ view_count > 0 THEN <<count, view_count>> ELSE None

\* VideoInfo.__init__ (models/video.py 59-66) on the stats it is given.
VideoInfoInit(stats) ==
    [stats |-> stats,
     like_to_view_ratio |-> Ratio(stats.like_count, stats.view_count),
     comment_to_view_ratio |-> Ratio(stats.comment_count, stats.view_count)]

InitRatio ==
    /\ InitExtractor /\ max_retries = 0 /\ enable_cache = TRUE
    /\ proc = [kind |-> "exit0", stdout |-> <<>>]
    /\ decoded = NotDecoded
    /\ last \in [op : {"stats"}, key : {<<>>}, ret : {None},
                 stats : [view_count : ViewCounts, like_count : LikeCounts,
                          comment_count : CommentCounts]]
    /\ tasks = <<>>
    /\ req = NoRequest
    /\ tmpdirs = {}
    /\ run = NoRun
    /\ hist = NoPrev

BuildVideoInfo ==
    /\ last.op = "stats"
    /\ last' = [last EXCEPT !.op = "video_info", !.ret = VideoInfoInit(last.stats)]
    /\ UNCHANGED <<proc, decoded, extractorVars, loopVars>>

NextRatio == BuildVideoInfo

SpecRatio == InitRatio /\ [][NextRatio]_vars

\* The fraction r equals n / d.
IsQuotient(r, n, d) == r # None /\ r[1] * d = n * r[2]

\* What the statement says of one ratio: absent when view_count is 0 or the
\* count is absent, count / view_count otherwise.
RatioAsStated(r, count, view_count) ==
    IF view_count = 0 \/ count = NoInt THEN r = None ELSE IsQuotient(r, count, view_count)

\* C20: like_to_view_ratio and comment_to_view_ratio are absent when
\* view_count is 0 or their count is absent and count / view_count otherwise;
\* 1000 views, 50 likes and 10 comments give 0.05 and 0.01.
C20_Ratios ==
    last.op = "video_info" =>
        LET v == last.ret
        IN  /\ RatioAsStated(v.like_to_view_ratio, v.stats.like_count, v.stats.view_count)
            /\ RatioAsStated(v.comment_to_view_ratio, v.stats.comment_count,
                             v.stats.view_count)
            /\ (v.stats.view_count = 1000 /\ v.stats.like_count = 50
                    /\ v.stats.comment_count = 10)
                   => /\ IsQuotient(v.like_to_view_ratio, 5, 100)
                      /\ IsQuotient(v.comment_to_view_ratio, 1, 100)

(***************************************************************************)
(* SpecParse: the mappers _parse_comments and _parse_transcript applied to *)
(* raw data read from the files the tool wrote.  A key of a JSON object    *)
(* that may be absent holds <<>> when absent and <<value>> when present;   *)
(* a text is a sequence of characters; seconds are exact fractions         *)
(* <<milliseconds, 1000>>.                                                 *)
(***************************************************************************)
\* JSON null, and Python's None in a field of type Optional[str].
JsonNull == "null"

\* comment_info: an id (absent, null or a string) and the list under
\* "replies", whose members have an id (absent or a string); an absent list
\* reads as the empty one: comment_info.get("replies", []).
CommentInfos ==
    [id : {NoKey, JsonNull, "c1"}, replies : SeqsUpTo([id : {NoKey, "c1"}], MaxItems)]

\* Comment(id=..., parent_id=...) (models/comment.py 10-21): id is a
\* required str, so None fails the validation.
Comment(id, parent_id) ==
    IF id = JsonNull THEN Raise("ValidationError", "id: Input should be a valid string")
    ELSE Ok([id |-> id, parent_id |-> parent_id])

\* Mutant of Thread: the replies are built without their parent's id.
ThreadUnlinked(comment_info) ==
    LET replies == [i \in 1..Len(comment_info.replies) |->
                       Comment(GetOr(comment_info.replies[i].id, ""), JsonNull)]
    IN  [top_comment |-> Comment(GetOr(comment_info.id, ""), JsonNull),
         replies |-> replies, total_reply_count |-> Len(replies)]

\* The CommentThread of one comment_info (lines 371-400), every Comment in
\* it as its constructor gave it.
Thread(comment_info) ==
    LET main_comment == Comment(GetOr(comment_info.id, ""), JsonNull)
        replies == [i \in 1..Len(comment_info.replies) |->
                       Comment(GetOr(comment_info.replies[i].id, ""),
                               IF main_comment.ok THEN main_comment.value.id ELSE JsonNull)]
    IN  [top_comment |-> main_comment, replies |-> replies,
         total_reply_count |-> Len(replies)]

\* _parse_comments (lines 363-403) on data["comments"]: the threads, or the
\* error of the first constructor that failed.
_parse_comments(comment_data) ==
    LET built == [i \in 1..Len(comment_data) |-> Thread(comment_data[i])]
        valid(th) == th.top_comment.ok /\ \A k \in 1..Len(th.replies) : th.replies[k].ok
    IN  IF \E i \in 1..Len(built) : ~valid(built[i])
        THEN Raise("ValidationError", "id: Input should be a valid string")
        ELSE Ok([i \in 1..Len(built) |->
                    [top_comment |-> built[i].top_comment.value,
                     replies |-> [k \in 1..Len(built[i].replies) |->
                                     built[i].replies[k].value],
                     total_reply_count |-> built[i].total_reply_count]])

\* The "segs" of an event: absent, or a list of segments, each with its
\* "utf8" absent or a text.
SegLists ==
    {<<>>,
     << <<>> >>,
     << <<[utf8 |-> <<>>]>> >>,
     << <<[utf8 |-> << <<"a">> >>]>> >>,
     << <<[utf8 |-> << <<" ">> >>]>> >>,
     << <<[utf8 |-> << <<"a">> >>], [utf8 |-> << <<" ">> >>]>> >>,
     << <<[utf8 |-> << <<" ">> >>], [utf8 |-> <<>>], [utf8 |-> << <<"a">> >>]>> >>}

\* An event of the json3 subtitle format.
Events == [tStartMs : {<<>>, <<1000>>}, dDurationMs : {<<>>, <<500>>, <<-500>>},
           segs : SegLists]

\* "".join(text_parts)
RECURSIVE Join(_)
Join(text_parts) ==
    IF text_parts = <<>> THEN <<>> ELSE Head(text_parts) \o Join(Tail(text_parts))

\* event.get(key, 0) for the milliseconds ms of the key.
MsOr0(ms) == IF ms = <<>> THEN 0 ELSE ms[1]

\* The texts of the segments that carry "utf8" (lines 463-466).
TextParts(segs) ==
    LET with_text == SelectSeq(segs, LAMBDA seg : seg.utf8 # <<>>)
    IN  [i \in 1..Len(with_text) |-> with_text[i].utf8[1]]

\* Mutant of EntriesOf: an event with "segs" always gives an entry.
EntriesOfAlways(event) ==
    IF event.segs # <<>>
    THEN <<[start_time |-> <<MsOr0(event.tStartMs), 1000>>,
            end_time |-> <<MsOr0(event.tStartMs) + MsOr0(event.dDurationMs), 1000>>,
            text |-> Strip(Join(TextParts(event.segs[1]))),
            duration |-> <<MsOr0(event.dDurationMs), 1000>>]>>
    ELSE <<>>

\* The entries one event adds (lines 459-475): none, or one TranscriptEntry.
EntriesOf(event) ==
    IF event.segs # <<>> /\ TextParts(event.segs[1]) # <<>>
    THEN <<[start_time |-> <<MsOr0(event.tStartMs), 1000>>,
            end_time |-> <<MsOr0(event.tStartMs) + MsOr0(event.dDurationMs), 1000>>,
            text |-> Strip(Join(TextParts(event.segs[1]))),
            duration |-> <<MsOr0(event.dDurationMs), 1000>>]>>
    ELSE <<>>

\* The entries of _parse_transcript (lines 456-475) on data["events"].
RECURSIVE _parse_transcript(_)
_parse_transcript(events) ==
    IF events = <<>> THEN <<>>
    ELSE EntriesOf(Head(events)) \o _parse_transcript(Tail(events))

InitParse ==
    /\ InitExtractor /\ max_retries = 0 /\ enable_cache = TRUE
    /\ proc = [kind |-> "exit0", stdout |-> <<>>]
    /\ decoded = NotDecoded
    /\ \/ last \in [op : {"comment_file"}, data : SeqsUpTo(CommentInfos, MaxItems),
                    ret : {None}]
       \/ last \in [op : {"sub_file"}, data : SeqsUpTo(Events, MaxItems), ret : {None}]
    /\ tasks = <<>>
    /\ req = NoRequest
    /\ tmpdirs = {}
    /\ run = NoRun
    /\ hist = NoPrev

ParseComments ==
    /\ last.op = "comment_file"
    /\ last' = [last EXCEPT !.op = "threads", !.ret = _parse_comments(last.data)]
    /\ UNCHANGED <<proc, decoded, extractorVars, loopVars>>

ParseTranscript ==
    /\ last.op = "sub_file"
    /\ last' = [last EXCEPT !.op = "entries", !.ret = Ok(_parse_transcript(last.data))]
    /\ UNCHANGED <<proc, decoded, extractorVars, loopVars>>

NextParse == ParseComments \/ ParseTranscript

SpecParse == InitParse /\ [][NextParse]_vars

\* C21: in every thread _parse_comments produces, every reply carries a
\* parent_id that is not null and equals the id of the thread's top
\* comment, the top comment carries no parent_id, and total_reply_count is
\* the length of the reply sequence.
C21_ParentLinkage ==
    (last.op = "threads" /\ last.ret.ok) =>
        /\ Len(last.ret.value) = Len(last.data)
        /\ \A i \in 1..Len(last.ret.value) :
               LET th == last.ret.value[i]
               IN  /\ th.top_comment.parent_id = JsonNull
                   /\ th.total_reply_count = Len(th.replies)
                   /\ Len(th.replies) = Len(last.data[i].replies)
                   /\ \A k \in 1..Len(th.replies) :
                          /\ th.replies[k].parent_id # JsonNull
                          /\ th.replies[k].parent_id = th.top_comment.id

C21_Witness ==
    /\ last.op = "threads"
    /\ last.ret.ok
    /\ Len(last.ret.value) = 2
    /\ last.data[1].id = NoKey
    /\ Len(last.ret.value[1].replies) = 2
    /\ last.ret.value[1].replies[2].parent_id = ""
    /\ Len(last.ret.value[2].replies) = 1
    /\ last.ret.value[2].replies[1].parent_id = "c1"
    /\ last.ret.value[2].replies[1].id = "c1"

(***************************************************************************)
(* Claims about _parse_transcript, checked on SpecParse.                   *)
(***************************************************************************)
Parsed == last.op = "entries"

\* The strictly increasing maps from the entries to the events.
Orderings(n, m) == {f \in [1..n -> 1..m] : \A i, j \in 1..n : i < j => f[i] < f[j]}

\* C22: every entry of _parse_transcript has end_time >= start_time and
\* end_time = start_time + duration, for any start and duration of the
\* events, and the entries stand in the order of their events.
C22_EndAfterStart ==
    Parsed =>
        LET entries == last.ret.value
        IN  /\ \A i \in 1..Len(entries) :
                   /\ entries[i].end_time[1] >= entries[i].start_time[1]
                   /\ entries[i].end_time[1] = entries[i].start_time[1] + entries[i].duration[1]
            /\ \E f \in Orderings(Len(entries), Len(last.data)) :
                   \A i \in 1..Len(entries) :
                       /\ entries[i].start_time[1] = MsOr0(last.data[f[i]].tStartMs)
                       /\ entries[i].duration[1] = MsOr0(last.data[f[i]].dDurationMs)

\* The events that have a segment list, and those of them in which some
\* segment has a text.
WithSegs == {i \in 1..Len(last.data) : last.data[i].segs # <<>>}

WithText ==
    {i \in WithSegs : \E k \in 1..Len(last.data[i].segs[1]) :
                          last.data[i].segs[1][k].utf8 # <<>>}

\* The k-th member of the set S of indices.
Kth(S, k) == CHOOSE i \in S : Cardinality({j \in S : j <= i}) = k

\* All the texts of the segments of event i, one after the other.
AllText(i) == Join(TextParts(last.data[i].segs[1]))

\* text is whole without the white space at its two ends.
IsTrimmed(text, whole) ==
    /\ text = <<>> \/ (text[1] \notin Whitespace /\ text[Len(text)] \notin Whitespace)
    /\ \E a \in 0..Len(whole) :
           /\ a + Len(text) <= Len(whole)
           /\ text = SubSeq(whole, a + 1, a + Len(text))
           /\ \A j \in 1..Len(whole) : (j <= a \/ j > a + Len(text)) => whole[j] \in Whitespace

\* C23 as stated: one entry for each event that has a segment list, in
\* event order, whose text is the concatenation of the texts of the event's
\* segments; no entry for an event without segments.
C23_OneEntryPerEvent ==
    Parsed =>
        /\ Len(last.ret.value) = Cardinality(WithSegs)
        /\ \A k \in 1..Len(last.ret.value) :
               last.ret.value[k].text = AllText(Kth(WithSegs, k))

\* C23 amended: one entry for each event that has a segment list in which
\* at least one segment has a text, in event order, whose text is the
\* concatenation of the texts of the event's segments without the white
\* space at its ends; no entry for any other event.
C23_OneEntryPerTextEvent ==
    Parsed =>
        /\ Len(last.ret.value) = Cardinality(WithText)
        /\ \A k \in 1..Len(last.ret.value) :
               IsTrimmed(last.ret.value[k].text, AllText(Kth(WithText, k)))

C23_Witness ==
    /\ Parsed
    /\ Len(last.data) = 2
    /\ WithSegs = {1, 2}
    /\ WithText = {2}
    /\ Len(last.data[1].segs[1]) = 1
    /\ Len(last.data[2].segs[1]) = 3
    /\ Len(last.ret.value) = 1
    /\ last.ret.value[1].text = <<"a">>

(***************************************************************************)
(* Claims about the configuration, checked on Spec.                        *)
(***************************************************************************)
\* C24: no step of any operation, successful or failed, changes the
\* configuration of the extractor: max_retries, retry_delay, enable_cache
\* and cache_ttl keep the values given at construction (timeout is never
\* assigned after construction and is the constant DefaultTimeout).
C24_ConfigFrozen ==
    [][UNCHANGED <<max_retries, retry_delay, enable_cache, cache_ttl>>]_vars

(***************************************************************************)
(* Claims about the writes of the cache, checked on Spec.                  *)
(***************************************************************************)
\* C25: a step creates or overwrites the cache entry of key K only if it is
\* the step in which an operation call for K ends with a result; a call
\* that ends in a failure leaves every entry as it was.
C25_StoreOnlyOnSuccess ==
    [][\A k \in DOMAIN cache' :
           (k \notin DOMAIN cache \/ cache'[k] # cache[k])
               => \E i \in 1..Len(tasks) :
                      /\ tasks[i].pc # "done"
                      /\ tasks'[i].pc = "done"
                      /\ tasks'[i].res.ok
                      /\ CacheKeyOf(tasks[i]) = k]_vars

(***************************************************************************)
(* Claims about the aggregate view count, checked on SpecChannel.          *)
(***************************************************************************)
\* The videos the view-count query sampled: the records of its output.
Sampled(out) == IF out.ok THEN out.items ELSE <<>>

HasNumericViews(items) == \E k \in 1..Len(items) : items[k].view_count # NoInt

\* C26: the step that ends the view-count query ends get_channel_info with
\* the channel record, whatever the query did; the record's view count is
\* the sum of the numeric view counts of the sampled videos when there is
\* one and the record has statistics, and absent otherwise.
C26_ViewCountBestEffort ==
    [][\A i \in 1..Len(tasks) :
           (tasks[i].op = "channel" /\ tasks[i].phase = "views" /\ tasks'[i].pc = "done")
               => LET res     == tasks'[i].res
                      sampled == Sampled(run'.out)
                  IN  /\ res.ok
                      /\ res.value.kind = "ChannelInfo"
                      /\ res.value.view_count =
                             IF res.value.has_stats /\ HasNumericViews(sampled)
                             THEN SumViews(sampled) ELSE NoInt]_vars

(***************************************************************************)
(* Claims about the fallback query, checked on SpecChannel.                *)
(***************************************************************************)
\* C27: get_channel_info ends in the fallback phase only if the fallback
\* query failed; when that query gave records, of whatever number, the call
\* goes on and ends with the ChannelInfo built from the first record, and
\* the cache holds the payload of the query.
C27_FallbackBuildsRecord ==
    [][\A i \in 1..Len(tasks) :
           tasks[i].op = "channel" =>
               /\ (tasks[i].phase = "fallback" /\ tasks'[i].pc = "done") => ~run'.out.ok
               /\ (tasks[i].phase = "views" /\ tasks[i].origin = "fallback"
                       /\ tasks'[i].pc = "done")
                      => /\ tasks'[i].res.ok
                         /\ tasks'[i].res.value.kind = "ChannelInfo"
                         /\ tasks'[i].res.value.id
                                = GetOr(tasks[i].data.items[1].uploader_id, "")
                         /\ ChannelKey(tasks[i].url) \in DOMAIN cache'
                         /\ cache'[ChannelKey(tasks[i].url)][1] = tasks[i].data]_vars

(***************************************************************************)
(* SpecHit: calls of get_channel_info and get_playlist_info on an          *)
(* extractor whose cache holds the payload of an earlier successful call   *)
(* and whose lru_cache memo no longer holds that call's key: the state     *)
(* after the earlier call and lookups of LruMaxsize other keys, which      *)
(* evict the memo of the first miss.  The keys outside the model are left  *)
(* out of the memo.                                                        *)
(***************************************************************************)
InitHit ==
    /\ max_retries \in 0..MaxRetries
    /\ max_retries <= 1
    /\ retry_delay = DefaultRetryDelay
    /\ enable_cache = TRUE
    /\ cache_ttl = CacheTtl
    /\ has_cache = TRUE
    /\ \E key \in {ChannelKey(u) : u \in Urls} \cup {PlaylistKey(u) : u \in Urls},
          data \in CachePayloads :
           cache = SetKey(EmptyCache, key, <<data, 0>>)
    /\ lru = EmptyLru
    /\ now = 0
    /\ InitIdle

NextHit ==
    \/ \E url \in Urls : Call("channel", url, 0)
    \/ \E url \in Urls : Call("playlist", url, 0)
    \/ TaskStepOver(BatchToolResults)

SpecHit == InitHit /\ [][NextHit]_vars

\* The call of task i was answered from the cache: it ended without any
\* invocation of the tool.
AnsweredFromCache(i) == tasks[i].pc = "done" /\ tasks[i].calls = 0

\* C28: a call of get_channel_info or get_playlist_info whose cache lookup
\* returned a payload ends without error and returns the ChannelInfo or
\* PlaylistInfo of that payload, without invoking the tool.
C28_HitRebuildsRecord ==
    \A i \in 1..Len(tasks) :
        (AnsweredFromCache(i) /\ tasks[i].op \in {"channel", "playlist"}) =>
            /\ tasks[i].res.ok
            /\ tasks[i].res.value.kind
                   = IF tasks[i].op = "channel" THEN "ChannelInfo" ELSE "PlaylistInfo"

(***************************************************************************)
(* SpecInit: the server process from its start.  The global "extractor" is *)
(* 0 (None) or the number of the instance it holds; every tool begins with *)
(* "if not extractor: await initialize_extractor()", which has no          *)
(* suspending await, so a tool call runs it without interleaving.          *)
(***************************************************************************)
\* _verify_yt_dlp (lines 84-97) when "yt-dlp --version" does p.
_verify_yt_dlp(p) ==
    CASE p.kind = "exit0"   -> Ok(None)
      [] p.kind = "nonzero" -> Raise("YouTubeExtractorError", "yt-dlp is not working properly")
      [] OTHER -> Raise("YouTubeExtractorError", "yt-dlp is not installed or not in PATH")

\* Mutant of initialize_extractor: the global is assigned before the
\* constructor has verified the tool.
initialize_extractor_unverified(ext, made, p) ==
    IF ext # 0 THEN [extractor |-> ext, res |-> Ok(None)]
    ELSE [extractor |-> made + 1, res |-> _verify_yt_dlp(p)]

\* initialize_extractor (server.py 64-92) with the global holding ext after
\* made constructions: the global it leaves and what it returns or raises;
\* the constructor raises what _verify_yt_dlp raises (line 82) and then the
\* assignment of line 82 of server.py does not happen.
initialize_extractor(ext, made, p) ==
    IF ext # 0 THEN [extractor |-> ext, res |-> Ok(None)]
    ELSE IF _verify_yt_dlp(p).ok THEN [extractor |-> made + 1, res |-> Ok(None)]
    ELSE [extractor |-> 0, res |-> _verify_yt_dlp(p)]

ServerStart ==
    [op |-> "server", key |-> <<>>, ret |-> None, extractor |-> 0, made |-> 0,
     before |-> 0, attempted |-> FALSE]

InitProcess ==
    /\ InitExtractor /\ enable_cache = TRUE /\ max_retries <= 1
    /\ proc = [kind |-> "exit0", stdout |-> <<>>]
    /\ decoded = NotDecoded
    /\ last = ServerStart
    /\ tasks = <<>>
    /\ req = NoRequest
    /\ tmpdirs = {}
    /\ run = NoRun
    /\ hist = NoPrev

\* The get_video_info tool (server.py 233-240) when a version query of the
\* initialisation would do p: the initialisation if no extractor exists,
\* and the call of the extractor if one exists then.  A new instance has
\* its own configuration and no cache.
ToolCall(url, p) ==
    /\ Idle
    /\ hist.n < MaxCalls
    /\ LET attempted == last.extractor = 0
           r == IF attempted THEN initialize_extractor(last.extractor, last.made, p)
                ELSE [extractor |-> last.extractor, res |-> Ok(None)]
           constructed == r.extractor # last.extractor
       IN  /\ (~attempted) => p.kind = "exit0"
           /\ last' = [last EXCEPT !.extractor = r.extractor, !.ret = r.res,
                                   !.made = IF constructed THEN @ + 1 ELSE @,
                                   !.before = last.extractor, !.attempted = attempted]
           /\ IF r.res.ok
              THEN /\ tasks' = <<Task("video", url, 0)>>
                   /\ req' = [kind |-> "call", state |-> "active"]
              ELSE /\ tasks' = <<>>
                   /\ req' = [kind |-> "call", state |-> "returned", ret |-> r.res]
           /\ hist' = [hist EXCEPT !.n = @ + 1]
           /\ IF constructed
              THEN /\ retry_delay' = DefaultRetryDelay
                   /\ has_cache' = FALSE
                   /\ cache' = EmptyCache
                   /\ lru' = EmptyLru
              ELSE UNCHANGED <<retry_delay, has_cache, cache, lru>>
    /\ UNCHANGED <<proc, decoded, configVars, now, tmpdirs, run>>

NextProcess ==
    \/ \E url \in Urls, p \in VersionResults : ToolCall(url, p)
    \/ TaskStepOver(BatchToolResults)

SpecInit == InitProcess /\ [][NextProcess]_vars

\* C29: at most one extractor is ever constructed; a tool call that finds
\* an extractor keeps it and attempts no initialisation; a tool call that
\* finds none attempts the initialisation, which leaves an extractor if it
\* succeeds and none if it fails, and then no extraction is started; every
\* entry of the cache belongs to the one extractor.
C29_SingleExtractor ==
    /\ last.made <= 1
    /\ last.extractor = last.made
    /\ last.before # 0 => (last.extractor = last.before /\ ~last.attempted /\ last.ret.ok)
    /\ (last.before = 0 /\ hist.n > 0) => (last.attempted /\ (last.extractor # 0) = last.ret.ok)
    /\ ~last.ret.ok => (hist.n > 0 => (last.extractor = 0 /\ tasks = <<>>))
    /\ last.extractor = 0 => (cache = EmptyCache /\ tasks = <<>>)

C29_Witness ==
    /\ hist.n = 2
    /\ hist.prev.op = "none"
    /\ last.before = 0
    /\ last.attempted
    /\ last.extractor = 1
    /\ last.made = 1
    /\ req.state = "active"
    /\ AllDone
    /\ tasks[1].res.ok
    /\ cache # EmptyCache

(***************************************************************************)
(* SpecLive: one request on a new extractor, a call of any operation or a  *)
(* batch_extract, under the fairness of the event loop: a coroutine that   *)
(* can run is run, and every run of the tool and every sleep ends.         *)
(***************************************************************************)
Operations == {"video", "playlist", "comments", "transcript", "channel", "search", "trending"}

InitLive == InitExtractor /\ InitIdle /\ enable_cache = TRUE /\ max_retries <= 1

NextLive ==
    \/ \E op \in Operations, url \in Urls : req.state = "idle" /\ Call(op, url, 1)
    \/ \E extract_type \in ExtractTypes, n \in 1..MaxBatch :
           CallBatch(extract_type, [i \in 1..n |-> "u1"])
    \/ TaskStepOver(BatchToolResults)

SpecLive == InitLive /\ [][NextLive]_vars /\ WF_vars(TaskStepOver(BatchToolResults))

\* The most tool invocations the statement allows a call of op.
InvocationBound(op) ==
    IF op = "channel" THEN 3 * (max_retries + 1) ELSE max_retries + 1

RECURSIVE TotalCalls(_)
TotalCalls(ts) == IF ts = <<>> THEN 0 ELSE Head(ts).calls + TotalCalls(Tail(ts))

\* C30: every request ends; a call invokes the tool at most max_retries + 1
\* times, a call of get_channel_info at most 3 * (max_retries + 1) times,
\* and a batch_extract over n targets at most n times the bound of its
\* operation.
C30_BoundedTermination ==
    /\ [](\A i \in 1..Len(tasks) : tasks[i].calls <= InvocationBound(tasks[i].op))
    /\ [](tasks # <<>> => TotalCalls(tasks) <= Len(tasks) * InvocationBound(tasks[1].op))
    /\ (req.state = "active" ~> req.state = "returned")

C30_Witness ==
    /\ req.kind = "batch"
    /\ req.state = "returned"
    /\ Len(tasks) = 2
    /\ tasks[1].op = "channel"
    /\ max_retries = 1
    /\ tasks[1].calls = 6
    /\ TotalCalls(tasks) = 12

====
